---- MODULE Spec2Model ----
(***************************************************************************)
(* A model of the MCP chat client.                                         *)
(*                                                                         *)
(*   get_mcp_tools.py   get_tools_from_server, get_tools (tool discovery)  *)
(*   chatwithtools.py   MCPToolExecutor (initialize_tools, execute_tool)   *)
(*                      ChatSession (initialize, send_message, run)        *)
(*                                                                         *)
(* One behaviour is one run() session: construction, initialize() with the *)
(* concurrent per-server discoveries, then the interactive loop.  The MCP  *)
(* SDK, the subprocesses, the chat-completion API and the terminal are the *)
(* environment: what they answer is chosen nondeterministically.           *)
(***************************************************************************)
EXTENDS Naturals, Sequences, FiniteSets, TLC

VARIABLES
    config,          \* MCPToolExecutor.config, the document loaded at construction
    tool_to_server,  \* MCPToolExecutor.tool_to_server
    tools,           \* ChatSession.tools (NoTools until initialize() has run)
    messages,        \* ChatSession.messages, the transcript
    pc,              \* where run() is
    file_config,     \* get_tools: the document read from the file
    mcp_servers,     \* get_tools: the registry of that document
    tasks,           \* get_tools: one get_tools_from_server task per launched server
    done_order,      \* get_tools: the indices of the tasks, in the order they completed
    server_tools,    \* initialize_tools: what get_tools returned, until it is converted
    sessions,        \* the subprocess sessions that are open, each named by its owner
    tool_calls,      \* send_message: assistant_message.tool_calls of the first response
    tool_idx,        \* send_message: position of the for loop over tool_calls
    turn,            \* the number of send_message calls begun
    turn_base,       \* Len(messages) when the current send_message was entered
    exec_log,        \* the execute_tool invocations of the current send_message
    last_line,       \* what the last input() returned, before strip()
    output,          \* what the last loop iteration printed
    request,         \* the keyword arguments of the last chat-completion call
    completions      \* the chat-completion calls of the current send_message

vars == <<config, tool_to_server, tools, messages, pc, file_config, mcp_servers, tasks,
          done_order, server_tools, sessions, tool_calls, tool_idx, turn,
          turn_base, exec_log, last_line, output, request, completions>>

-----------------------------------------------------------------------------
(* Bounds of the model. *)

MaxServers == 2      \* servers in a registry
MaxCalls == 2        \* tool calls in one chat-completion response
MaxTurns == 2        \* send_message calls in one session

-----------------------------------------------------------------------------
(* Python values. *)

\* None, where a string is expected.
NoneVal == "<None>"

\* The empty dict {}.
EmptyDict == [k \in {} |-> ""]

\* None, where a dict is expected.
NoneDict == [None |-> TRUE]

\* dict.get(key, default) on a dict modelled as a function.
DictGet(d, key, default) == IF key \in DOMAIN d THEN d[key] ELSE default

\* Truth value of a string or None.
StrTruthy(s) == s # NoneVal /\ s # ""

\* Truth value of a dict or None.
DictTruthy(d) == d # NoneDict /\ DOMAIN d # {}

-----------------------------------------------------------------------------
(* Terminal input: a line is a sequence of characters. *)

Whitespace == {" ", "\t"}

UpperCase == <<"A","B","C","D","E","F","G","H","I","J","K","L","M",
               "N","O","P","Q","R","S","T","U","V","W","X","Y","Z">>
LowerCase == <<"a","b","c","d","e","f","g","h","i","j","k","l","m",
               "n","o","p","q","r","s","t","u","v","w","x","y","z">>

RECURSIVE LStrip(_)
LStrip(s) == IF s # <<>> /\ Head(s) \in Whitespace THEN LStrip(Tail(s)) ELSE s

RECURSIVE RStrip(_)
RStrip(s) ==
    IF s # <<>> /\ s[Len(s)] \in Whitespace
    THEN RStrip(SubSeq(s, 1, Len(s) - 1))
    ELSE s

\* str.strip()
Strip(s) == RStrip(LStrip(s))

LowerChar(c) ==
    IF \E i \in 1..Len(UpperCase) : UpperCase[i] = c
    THEN LowerCase[CHOOSE i \in 1..Len(UpperCase) : UpperCase[i] = c]
    ELSE c

\* The string as it is.
LowerIdentity(s) == s

\* str.lower()
Lower(s) == [i \in 1..Len(s) |-> LowerChar(s[i])]

\* The words that end the loop: ["exit", "quit"].
ExitWords == {<<"e","x","i","t">>, <<"q","u","i","t">>}

\* No line: input() has not returned one.
NoLine == << "EOF" >>

\* The lines the user may type.
InputLines ==
    { <<>>,
      <<" ", "\t">>,
      <<"e","x","i","t">>,
      <<" ","E","x","I","T"," ">>,
      <<"Q","U","I","T","\t">>,
      <<" ","E","x","i","t","?"," ">> }

-----------------------------------------------------------------------------
(* The configuration document and the server registry. *)

ServerName(i) == "s" \o ToString(i)

\* Server launch specs: a usable one, one with an empty command, and {}.
LaunchSpecs ==
    { [command |-> "python", args |-> <<"server.py">>],
      [command |-> ""],
      EmptyDict }

\* A registry is a dict in insertion order: a sequence of (name, config) items.
Registries ==
    UNION { [1..n -> LaunchSpecs] : n \in 0..MaxServers }

RegistryItems(specs) ==
    [i \in 1..Len(specs) |-> [name |-> ServerName(i), config |-> specs[i]]]

\* The documents the configuration file may hold: with or without mcpServers.
Docs ==
    {EmptyDict} \cup { [mcpServers |-> RegistryItems(r)] : r \in Registries }

\* config.get("mcpServers", {})
McpServers(doc) == DictGet(doc, "mcpServers", <<>>)

\* mcp_servers.get(server_name): the item's config, or None.
RegistryGet(items, name) ==
    IF \E i \in 1..Len(items) : items[i].name = name
    THEN items[CHOOSE i \in 1..Len(items) : items[i].name = name].config
    ELSE NoneDict

-----------------------------------------------------------------------------
(* What the environment may answer. *)

\* str(e) of an exception raised by the SDK, a subprocess or the chat API.
ErrMsgs == {"boom"}

\* Tool objects a server may list.
PingTool ==
    [name |-> "ping", description |-> "Ping a host",
     inputSchema |-> [type |-> "object"]]
CalcBare == [name |-> "calc", description |-> "Calculator"]
EchoTool == [name |-> "echo", description |-> NoneVal, inputSchema |-> EmptyDict]

\* tools_list.tools of a list_tools() answer.
ToolLists == { <<>>, <<PingTool, CalcBare, EchoTool>> }

\* Results of call_tool(): with content items (with or without text), or
\* without a content attribute.  repr is what str() gives of the object.
CallResults ==
    { [content |-> <<[text |-> "pong"], [repr |-> "ImageContent()"]>>,
       repr |-> "CallToolResult(content)"],
      [repr |-> "RawResult()"] }

-----------------------------------------------------------------------------
(* get_mcp_tools.py *)

NoCommandError == "No command specified in configuration"
NoServersError == "No mcpServers found in configuration"

\* The tool_info dict built from one Tool object.
ToolInfo(tool) ==
    IF "inputSchema" \in DOMAIN tool
    THEN [name |-> tool.name, description |-> tool.description,
          inputSchema |-> tool.inputSchema]
    ELSE [name |-> tool.name, description |-> tool.description]

\* The record get_tools_from_server returns when the listing succeeded.
ToolsResult(server_name, tools_list) ==
    LET infos == [i \in 1..Len(tools_list) |-> ToolInfo(tools_list[i])]
    IN  [server |-> server_name, tools |-> infos, tool_count |-> Len(infos)]

\* An error record without the server's name.
ErrorResultNameless(server_name, e) == [error |-> e]

\* The record get_tools_from_server returns for an error.
ErrorResult(server_name, e) == [server |-> server_name, error |-> e]

\* An empty collection.
NoServersEmpty == << >>

\* What get_tools returns for a registry without servers.
NoServersResult == << [error |-> NoServersError] >>

\* The subprocess session a discovery task owns.
DiscoverySession(i) == [op |-> "discover", turn |-> 0, idx |-> i]

\* A block that is left without the release.
ReleaseLeak(owner) == sessions' = sessions

\* Leaving "async with stdio_client(...)": the session and its subprocess
\* are released, however the block is left.
Release(owner) == sessions' = sessions \ {owner}

\* A task that has been created and has not run yet.
NewTask == [st |-> "launched", result |-> NoneDict]

DoneTask(result) == [st |-> "done", result |-> result]

AllDone == \A i \in 1..Len(tasks) : tasks[i].st = "done"

\* The results in the order in which the tasks completed.
GatherCompletionOrder(ts, order) == [i \in 1..Len(ts) |-> ts[order[i]].result]

\* What asyncio.gather returns: the tasks' results, in the order of the tasks.
GatherResults(ts, order) == [i \in 1..Len(ts) |-> ts[i].result]

-----------------------------------------------------------------------------
(* chatwithtools.py: MCPToolExecutor *)

\* json.dumps({"error": message})
JsonError(message) == "{\"error\": \"" \o message \o "\"}"

\* The definition with parameters only for a schema that is not empty.
OpenAIToolTruthySchema(tool) ==
    LET function == [name |-> tool.name,
                     description |-> DictGet(tool, "description", "")]
    IN  IF "inputSchema" \in DOMAIN tool /\ DictTruthy(tool.inputSchema)
        THEN [type |-> "function",
              function |-> [name |-> function.name,
                            description |-> function.description,
                            parameters |-> tool.inputSchema]]
        ELSE [type |-> "function", function |-> function]

\* The Chat Function Definition built from one tool dict.
OpenAITool(tool) ==
    LET function == [name |-> tool.name,
                     description |-> DictGet(tool, "description", "")]
    IN  IF "inputSchema" \in DOMAIN tool
        THEN [type |-> "function",
              function |-> [name |-> function.name,
                            description |-> function.description,
                            parameters |-> tool.inputSchema]]
        ELSE [type |-> "function", function |-> function]

\* tool_to_server[tool_name] = server_name
IndexPut(index, tool_name, server_name) ==
    [n \in DOMAIN index \cup {tool_name} |->
        IF n = tool_name THEN server_name ELSE index[n]]

\* The inner loop of initialize_tools over one server's tools.  acc holds the
\* index and the openai_tools list built so far.
RECURSIVE ConvertTools(_, _, _)
ConvertTools(server_name, tool_list, acc) ==
    IF tool_list = <<>>
    THEN acc
    ELSE ConvertTools(server_name, Tail(tool_list),
            [index |-> IndexPut(acc.index, Head(tool_list).name, server_name),
             openai_tools |-> Append(acc.openai_tools, OpenAITool(Head(tool_list)))])

\* The outer loop of initialize_tools over the discovery results: a result
\* with an error is skipped.
RECURSIVE ConvertServers(_, _)
ConvertServers(results, acc) ==
    IF results = <<>>
    THEN acc
    ELSE LET server_info == Head(results)
         IN  IF "error" \in DOMAIN server_info
             THEN ConvertServers(Tail(results), acc)
             ELSE ConvertServers(Tail(results),
                     ConvertTools(DictGet(server_info, "server", NoneVal),
                                  DictGet(server_info, "tools", <<>>), acc))

ToolNotFound(tool_name) == JsonError("Tool " \o tool_name \o " not found")

ServerNotConfigured(server_name) ==
    JsonError("Server " \o server_name \o " not configured")

\* The lookups without the check of the server's configuration.
ExecuteLookupIndexOnly(index, cfg, tool_name) ==
    IF ~StrTruthy(DictGet(index, tool_name, NoneVal))
    THEN ToolNotFound(tool_name)
    ELSE NoneVal

\* The two lookups execute_tool makes before it opens a session: the error
\* string it returns at once, or NoneVal when it goes on to the server.
ExecuteLookup(index, cfg, tool_name) ==
    LET server_name == DictGet(index, tool_name, NoneVal)
        server_config == RegistryGet(McpServers(cfg), server_name)
    IN  IF ~StrTruthy(server_name) THEN ToolNotFound(tool_name)
        ELSE IF ~DictTruthy(server_config) THEN ServerNotConfigured(server_name)
        ELSE NoneVal

\* The command execute_tool launches for a tool that passed the lookups.
ExecuteCommand(index, cfg, tool_name) ==
    DictGet(RegistryGet(McpServers(cfg), index[tool_name]), "command", NoneVal)

\* "\n".join(items)
RECURSIVE Join(_)
Join(items) ==
    IF items = <<>> THEN ""
    ELSE IF Len(items) = 1 THEN items[1]
    ELSE items[1] \o "\n" \o Join(Tail(items))

\* item.text if the item has one, else str(item).
ItemText(item) == IF "text" \in DOMAIN item THEN item.text ELSE item.repr

\* The text execute_tool extracts from a call_tool() result.
ResultText(result) ==
    IF "content" \in DOMAIN result
    THEN Join([i \in 1..Len(result.content) |-> ItemText(result.content[i])])
    ELSE result.repr

\* The subprocess session one execute_tool call owns.
ExecuteSession(t, i) == [op |-> "execute", turn |-> t, idx |-> i]

-----------------------------------------------------------------------------
(* chatwithtools.py: ChatSession *)

\* self.tools before initialize().
NoTools == << [type |-> "None"] >>

\* The argument strings the model may produce, and json.loads of each: the
\* strings outside ValidJson make json.loads raise.
ArgStrings == { "{\"host\": \"a\"}", "{oops" }
ValidJson == { "{}", "{\"host\": \"a\"}" }
JsonLoads(s) == IF s = "{}" THEN EmptyDict ELSE [host |-> "a"]

\* The tool names the model may ask for: listed by some server, or by none.
CallNames == { "ping", "ghost" }

\* The id the API gives the i-th tool call of a response: distinct ids.
CallId(i) == "call_" \o ToString(i)

\* The content of a response without tool calls.
Contents == { "Hello" }

ToolCall(id, name, arguments) ==
    [id |-> id, type |-> "function",
     function |-> [name |-> name, arguments |-> arguments]]

\* The tool_calls a response may carry: none (None or an empty list), or up
\* to MaxCalls calls with distinct ids.
ToolCallLists ==
    UNION { { [i \in 1..n |-> ToolCall(CallId(i), c[i][1], c[i][2])] :
              c \in [1..n -> CallNames \X ArgStrings] }
            : n \in 1..MaxCalls }

\* response.choices[0].message: an answer (tool_calls is None or empty), or
\* a request for tool calls (content is None).
Responses ==
    [content : Contents, tool_calls : {<<>>}]
    \cup [content : {NoneVal}, tool_calls : ToolCallLists]

\* What the second call may answer: it offers no tools, so none is called.
FollowupResponses == { m \in Responses : m.tool_calls = <<>> }

\* The string made of a line's characters.
RECURSIVE Text(_)
Text(chars) == IF chars = <<>> THEN "" ELSE Head(chars) \o Text(Tail(chars))

UserMessage(text) == [role |-> "user", content |-> text]

\* The assistant message without the tool calls.
ToolCallsMessageContentOnly(m) == [role |-> "assistant", content |-> m.content]

\* The assistant message that carries the tool calls.
ToolCallsMessage(m) ==
    [role |-> "assistant", content |-> m.content,
     tool_calls |-> [i \in 1..Len(m.tool_calls) |->
                        [id |-> m.tool_calls[i].id,
                         type |-> m.tool_calls[i].type,
                         function |->
                            [name |-> m.tool_calls[i].function.name,
                             arguments |-> m.tool_calls[i].function.arguments]]]]

\* ToolMessage with the function's name where the call's id belongs.
ToolMessageNamedId(tool_call, tool_result) ==
    [role |-> "tool", tool_call_id |-> tool_call.function.name,
     content |-> tool_result]

ToolMessage(tool_call, tool_result) ==
    [role |-> "tool", tool_call_id |-> tool_call.id, content |-> tool_result]

\* The final assistant message of a turn.
FinalMessage(m) == [role |-> "assistant", content |-> m.content]

\* What run() prints in one iteration of the loop.
Printed(kind, text) == [kind |-> kind, text |-> text]

\* self.model, as main() passes it by default.
Model == "gpt-4o-mini"

\* Truth value of self.tools: None and the empty list are false.
ToolsTruthy(ts) == ts # NoTools /\ ts # <<>>

\* No chat-completion call has been made.
NoRequest == [made |-> FALSE]

\* The keyword arguments of the first call of a turn (the transcript apart):
\* tools and tool_choice are always passed, as None without tools.
FirstRequest(ts) ==
    [model |-> Model,
     tools |-> IF ToolsTruthy(ts) THEN ts ELSE NoTools,
     tool_choice |-> IF ToolsTruthy(ts) THEN "auto" ELSE NoneVal]

\* The keyword arguments of the second call of a turn (the transcript apart).
FollowupRequest == [model |-> Model]

-----------------------------------------------------------------------------
(* The state after ChatSession(config_path, model) has been constructed and  *)
(* run() has been called.                                                    *)

Init ==
    /\ config \in Docs
    /\ tool_to_server = EmptyDict
    /\ tools = NoTools
    /\ messages = <<>>
    /\ pc = "initialize"
    /\ file_config = NoneDict
    /\ mcp_servers = <<>>
    /\ tasks = <<>>
    /\ done_order = <<>>
    /\ server_tools = <<>>
    /\ sessions = {}
    /\ tool_calls = <<>>
    /\ tool_idx = 0
    /\ turn = 0
    /\ turn_base = 0
    /\ exec_log = <<>>
    /\ last_line = NoLine
    /\ output = Printed("none", NoneVal)
    /\ request = NoRequest
    /\ completions = 0

chat_vars == <<messages, tool_calls, tool_idx, turn, turn_base, exec_log,
               last_line, output, request, completions>>
bridge_vars == <<config, tool_to_server, tools>>
discovery_vars == <<file_config, mcp_servers, tasks, done_order, server_tools>>

-----------------------------------------------------------------------------
(* get_tools: run() -> initialize() -> initialize_tools() -> get_tools().    *)
(* What get_tools read and the order in which its tasks completed are kept   *)
(* until initialize_tools has consumed what get_tools returned.              *)

\* get_tools reads the configuration file again: it holds any document now.
GetToolsLoad ==
    /\ pc = "initialize"
    /\ \E doc \in Docs : file_config' = doc
    /\ pc' = "get_tools"
    /\ UNCHANGED <<bridge_vars, chat_vars, mcp_servers, tasks, done_order,
                   server_tools, sessions>>

\* The file is gone: FileNotFoundError leaves get_tools, initialize and run.
GetToolsNotFound ==
    /\ pc = "initialize"
    /\ pc' = "raised"
    /\ UNCHANGED <<bridge_vars, chat_vars, discovery_vars, sessions>>

\* No servers: the synthetic record is returned.  Otherwise one task per
\* server is created, in the order of the registry, and gather awaits them.
GetToolsLaunch ==
    /\ pc = "get_tools"
    /\ mcp_servers' = McpServers(file_config)
    /\ IF mcp_servers' = <<>>
       THEN /\ server_tools' = NoServersResult
            /\ pc' = "convert"
            /\ UNCHANGED tasks
       ELSE /\ tasks' = [i \in 1..Len(mcp_servers') |-> NewTask]
            /\ pc' = "discover"
            /\ UNCHANGED server_tools
    /\ UNCHANGED <<bridge_vars, chat_vars, file_config, done_order, sessions>>

\* Task i completes with a result.
Complete(i, result) ==
    /\ tasks' = [tasks EXCEPT ![i] = DoneTask(result)]
    /\ done_order' = Append(done_order, i)

\* get_tools_from_server up to the entry of stdio_client: the command check,
\* then the launch of the subprocess, which fails or opens the session.
TaskStart(i) ==
    /\ pc = "discover"
    /\ tasks[i].st = "launched"
    /\ LET server_name == mcp_servers[i].name
           command == DictGet(mcp_servers[i].config, "command", NoneVal)
       IN  \/ /\ ~StrTruthy(command)
              /\ Complete(i, ErrorResult(server_name, NoCommandError))
              /\ UNCHANGED sessions
           \/ /\ StrTruthy(command)
              /\ \E e \in ErrMsgs : Complete(i, ErrorResult(server_name, e))
              /\ UNCHANGED sessions
           \/ /\ StrTruthy(command)
              /\ tasks' = [tasks EXCEPT ![i].st = "connected"]
              /\ sessions' = sessions \cup {DiscoverySession(i)}
              /\ UNCHANGED done_order
    /\ UNCHANGED <<bridge_vars, chat_vars, file_config, mcp_servers, server_tools, pc>>

\* await session.initialize(): the handshake fails, or succeeds.
TaskInitialize(i) ==
    /\ pc = "discover"
    /\ tasks[i].st = "connected"
    /\ \/ /\ \E e \in ErrMsgs : Complete(i, ErrorResult(mcp_servers[i].name, e))
          /\ Release(DiscoverySession(i))
       \/ /\ tasks' = [tasks EXCEPT ![i].st = "initialized"]
          /\ UNCHANGED <<sessions, done_order>>
    /\ UNCHANGED <<bridge_vars, chat_vars, file_config, mcp_servers, server_tools, pc>>

\* await session.list_tools(): it fails, or the tools are extracted; the
\* session is left either way.
TaskListTools(i) ==
    /\ pc = "discover"
    /\ tasks[i].st = "initialized"
    /\ \/ \E e \in ErrMsgs : Complete(i, ErrorResult(mcp_servers[i].name, e))
       \/ \E tools_list \in ToolLists :
             Complete(i, ToolsResult(mcp_servers[i].name, tools_list))
    /\ Release(DiscoverySession(i))
    /\ UNCHANGED <<bridge_vars, chat_vars, file_config, mcp_servers, server_tools, pc>>

\* asyncio.gather returns once every task is done; get_tools returns.
GetToolsReturn ==
    /\ pc = "discover"
    /\ AllDone
    /\ server_tools' = GatherResults(tasks, done_order)
    /\ tasks' = <<>>
    /\ pc' = "convert"
    /\ UNCHANGED <<bridge_vars, chat_vars, file_config, mcp_servers, done_order, sessions>>

\* initialize_tools without initialize() storing what it returns.
InitializeToolsUnstored ==
    /\ pc = "convert"
    /\ tool_to_server' =
          ConvertServers(server_tools,
             [index |-> tool_to_server, openai_tools |-> <<>>]).index
    /\ server_tools' = <<>>
    /\ file_config' = NoneDict
    /\ mcp_servers' = <<>>
    /\ done_order' = <<>>
    /\ pc' = "prompt"
    /\ UNCHANGED <<config, tools, chat_vars, tasks, sessions>>

\* The rest of initialize_tools, and initialize() storing what it returns.
InitializeTools ==
    /\ pc = "convert"
    /\ LET acc == ConvertServers(server_tools,
                     [index |-> tool_to_server, openai_tools |-> <<>>])
       IN  /\ tool_to_server' = acc.index
           /\ tools' = acc.openai_tools
    /\ server_tools' = <<>>
    /\ file_config' = NoneDict
    /\ mcp_servers' = <<>>
    /\ done_order' = <<>>
    /\ pc' = "prompt"
    /\ UNCHANGED <<config, chat_vars, tasks, sessions>>

-----------------------------------------------------------------------------
(* run(): the interactive loop, and send_message.                            *)

\* The error is printed and the loop is left.
CaughtBreak(e) ==
    /\ pc' = "ended"
    /\ output' = Printed("error", e)

\* The error leaves run().
CaughtReraise(e) ==
    /\ pc' = "raised"
    /\ output' = Printed("error", e)

\* except Exception in run(): the error is printed and the loop goes on.
Caught(e) ==
    /\ pc' = "prompt"
    /\ output' = Printed("error", e)

\* One input() that returns a line, and what the loop does with it, up to
\* the first chat-completion call of send_message.
ReadInput ==
    /\ pc = "prompt"
    /\ \E line \in InputLines :
         LET user_input == Strip(line)
         IN  /\ last_line' = line
             /\ \/ /\ user_input = <<>>
                   /\ UNCHANGED <<pc, messages, tool_calls, tool_idx, turn,
                                  turn_base, exec_log, output, completions>>
                \/ /\ user_input # <<>>
                   /\ Lower(user_input) \in ExitWords
                   /\ pc' = "ended"
                   /\ output' = Printed("goodbye", NoneVal)
                   /\ UNCHANGED <<messages, tool_calls, tool_idx, turn,
                                  turn_base, exec_log, completions>>
                \/ /\ user_input # <<>>
                   /\ Lower(user_input) \notin ExitWords
                   /\ turn < MaxTurns
                   /\ messages' = Append(messages, UserMessage(Text(user_input)))
                   /\ turn' = turn + 1
                   /\ turn_base' = Len(messages)
                   /\ tool_calls' = <<>>
                   /\ tool_idx' = 0
                   /\ exec_log' = <<>>
                   /\ completions' = 0
                   /\ pc' = "call1"
                   /\ UNCHANGED output
    /\ UNCHANGED <<bridge_vars, discovery_vars, sessions, request>>

\* KeyboardInterrupt while input() waits.
Interrupt ==
    /\ pc = "prompt"
    /\ pc' = "ended"
    /\ output' = Printed("goodbye", NoneVal)
    /\ last_line' = NoLine
    /\ UNCHANGED <<bridge_vars, discovery_vars, sessions, messages, tool_calls,
                   tool_idx, turn, turn_base, exec_log, request, completions>>

\* input() raises something else (EOFError).
ReadInputFails ==
    /\ pc = "prompt"
    /\ \E e \in ErrMsgs : Caught(e)
    /\ last_line' = NoLine
    /\ UNCHANGED <<bridge_vars, discovery_vars, sessions, messages, tool_calls,
                   tool_idx, turn, turn_base, exec_log, request, completions>>

\* Return without the append of the final assistant message.
ReturnNoAppend(m) ==
    /\ messages' = messages
    /\ output' = Printed("assistant", m.content)
    /\ pc' = "prompt"

\* send_message returns the content of the message it appended last.
Return(m) ==
    /\ messages' = Append(messages, FinalMessage(m))
    /\ output' = Printed("assistant", m.content)
    /\ pc' = "prompt"

\* The first call followed by the second call whatever the response holds.
FirstCompletionThenFollowup ==
    /\ pc = "call1"
    /\ request' = FirstRequest(tools)
    /\ completions' = completions + 1
    /\ \/ /\ \E e \in ErrMsgs : Caught(e)
          /\ UNCHANGED <<messages, tool_calls, tool_idx>>
       \/ \E m \in Responses :
             /\ m.tool_calls # <<>>
             /\ messages' = Append(messages, ToolCallsMessage(m))
             /\ tool_calls' = m.tool_calls
             /\ tool_idx' = 1
             /\ pc' = "tools"
             /\ UNCHANGED output
       \/ \E m \in Responses :
             /\ m.tool_calls = <<>>
             /\ pc' = "call2"
             /\ UNCHANGED <<messages, tool_calls, tool_idx, output>>
    /\ UNCHANGED <<bridge_vars, discovery_vars, sessions, turn, turn_base,
                   exec_log, last_line>>

\* The first chat-completion call: it raises, or answers with or without
\* tool calls.
FirstCompletion ==
    /\ pc = "call1"
    /\ request' = FirstRequest(tools)
    /\ completions' = completions + 1
    /\ \/ /\ \E e \in ErrMsgs : Caught(e)
          /\ UNCHANGED <<messages, tool_calls, tool_idx>>
       \/ \E m \in Responses :
             /\ m.tool_calls # <<>>
             /\ messages' = Append(messages, ToolCallsMessage(m))
             /\ tool_calls' = m.tool_calls
             /\ tool_idx' = 1
             /\ pc' = "tools"
             /\ UNCHANGED output
       \/ \E m \in Responses :
             /\ m.tool_calls = <<>>
             /\ Return(m)
             /\ UNCHANGED <<tool_calls, tool_idx>>
    /\ UNCHANGED <<bridge_vars, discovery_vars, sessions, turn, turn_base,
                   exec_log, last_line>>

\* The tool message written over the last message of the transcript.
AppendToolResultOverwrite(tool_result) ==
    /\ messages' = [messages EXCEPT ![Len(messages)] =
                        ToolMessage(tool_calls[tool_idx], tool_result)]
    /\ tool_idx' = tool_idx + 1
    /\ pc' = IF tool_idx = Len(tool_calls) THEN "call2" ELSE "tools"

\* The tool message is appended and the for loop moves on: to the next tool
\* call, or past the loop to the second chat-completion call.
AppendToolResult(tool_result) ==
    /\ messages' = Append(messages, ToolMessage(tool_calls[tool_idx], tool_result))
    /\ tool_idx' = tool_idx + 1
    /\ pc' = IF tool_idx = Len(tool_calls) THEN "call2" ELSE "tools"

\* One iteration of the for loop, up to the entry of stdio_client in
\* execute_tool: json.loads raises; or execute_tool returns an error at once;
\* or the launch of the subprocess fails; or the session is opened.
ToolStep ==
    /\ pc = "tools"
    /\ LET tool_call == tool_calls[tool_idx]
           tool_name == tool_call.function.name
           arguments == tool_call.function.arguments
           found == ExecuteLookup(tool_to_server, config, tool_name)
           invoked == Append(exec_log, [tool_name |-> tool_name,
                                         arguments |-> JsonLoads(arguments)])
       IN  \/ /\ arguments \notin ValidJson
              /\ \E e \in ErrMsgs : Caught(e)
              /\ UNCHANGED <<messages, tool_idx, exec_log, sessions>>
           \/ /\ arguments \in ValidJson
              /\ found # NoneVal
              /\ exec_log' = invoked
              /\ AppendToolResult(found)
              /\ UNCHANGED <<output, sessions>>
           \/ /\ arguments \in ValidJson
              /\ found = NoneVal
              /\ exec_log' = invoked
              /\ \E e \in ErrMsgs : AppendToolResult(JsonError(e))
              /\ UNCHANGED <<output, sessions>>
           \/ /\ arguments \in ValidJson
              /\ found = NoneVal
              /\ StrTruthy(ExecuteCommand(tool_to_server, config, tool_name))
              /\ exec_log' = invoked
              /\ sessions' = sessions \cup {ExecuteSession(turn, tool_idx)}
              /\ pc' = "connected"
              /\ UNCHANGED <<messages, tool_idx, output>>
    /\ UNCHANGED <<bridge_vars, discovery_vars, tool_calls, turn, turn_base,
                   last_line, request, completions>>

\* execute_tool: await session.initialize().
ExecuteInitialize ==
    /\ pc = "connected"
    /\ \/ /\ \E e \in ErrMsgs : AppendToolResult(JsonError(e))
          /\ Release(ExecuteSession(turn, tool_idx))
       \/ /\ pc' = "initialized"
          /\ UNCHANGED <<messages, tool_idx, sessions>>
    /\ UNCHANGED <<bridge_vars, discovery_vars, tool_calls, turn, turn_base,
                   exec_log, last_line, output, request, completions>>

\* execute_tool: await session.call_tool(); the session is left either way.
ExecuteCallTool ==
    /\ pc = "initialized"
    /\ \/ \E e \in ErrMsgs : AppendToolResult(JsonError(e))
       \/ \E result \in CallResults : AppendToolResult(ResultText(result))
    /\ Release(ExecuteSession(turn, tool_idx))
    /\ UNCHANGED <<bridge_vars, discovery_vars, tool_calls, turn, turn_base,
                   exec_log, last_line, output, request, completions>>

\* The second chat-completion call: it raises, or its message is the answer.
SecondCompletion ==
    /\ pc = "call2"
    /\ request' = FollowupRequest
    /\ completions' = completions + 1
    /\ \/ /\ \E e \in ErrMsgs : Caught(e)
          /\ UNCHANGED messages
       \/ \E m \in FollowupResponses : Return(m)
    /\ UNCHANGED <<bridge_vars, discovery_vars, sessions, tool_calls, tool_idx,
                   turn, turn_base, exec_log, last_line>>

-----------------------------------------------------------------------------

Next ==
    \/ GetToolsLoad
    \/ GetToolsNotFound
    \/ GetToolsLaunch
    \/ \E i \in 1..Len(tasks) : TaskStart(i)
    \/ \E i \in 1..Len(tasks) : TaskInitialize(i)
    \/ \E i \in 1..Len(tasks) : TaskListTools(i)
    \/ GetToolsReturn
    \/ InitializeTools
    \/ ReadInput
    \/ Interrupt
    \/ ReadInputFails
    \/ FirstCompletion
    \/ ToolStep
    \/ ExecuteInitialize
    \/ ExecuteCallTool
    \/ SecondCompletion

Spec == Init /\ [][Next]_vars

\* initialize() alone: the session up to the first prompt.
NextDiscovery ==
    \/ GetToolsLoad
    \/ GetToolsNotFound
    \/ GetToolsLaunch
    \/ \E i \in 1..Len(tasks) : TaskStart(i)
    \/ \E i \in 1..Len(tasks) : TaskInitialize(i)
    \/ \E i \in 1..Len(tasks) : TaskListTools(i)
    \/ GetToolsReturn
    \/ InitializeTools

SpecDiscovery == Init /\ [][NextDiscovery]_vars

-----------------------------------------------------------------------------
(* The interactive loop alone, from its first prompt: initialize() has       *)
(* loaded the tools of every server; the registry of the executor holds all  *)
(* of these servers, or the first of them only.                              *)

\* What get_tools returned to initialize_tools.
LoopResults ==
    [i \in 1..MaxServers |->
        ToolsResult(ServerName(i), <<PingTool, CalcBare, EchoTool>>)]

\* The documents the executor may have loaded at construction.
LoopDocs ==
    { [mcpServers |-> RegistryItems([i \in 1..n |-> [command |-> "python",
                                                     args |-> <<"server.py">>]])] :
      n \in {1, MaxServers} }

InitLoop ==
    /\ config \in LoopDocs
    /\ LET acc == ConvertServers(LoopResults,
                     [index |-> EmptyDict, openai_tools |-> <<>>])
       IN  /\ tool_to_server = acc.index
           /\ tools = acc.openai_tools
    /\ messages = <<>>
    /\ pc = "prompt"
    /\ file_config = NoneDict
    /\ mcp_servers = <<>>
    /\ tasks = <<>>
    /\ done_order = <<>>
    /\ server_tools = <<>>
    /\ sessions = {}
    /\ tool_calls = <<>>
    /\ tool_idx = 0
    /\ turn = 0
    /\ turn_base = 0
    /\ exec_log = <<>>
    /\ last_line = NoLine
    /\ output = Printed("none", NoneVal)
    /\ request = NoRequest
    /\ completions = 0

\* A step of send_message: an await that returns or raises.
TurnStep ==
    \/ FirstCompletion
    \/ ToolStep
    \/ ExecuteInitialize
    \/ ExecuteCallTool
    \/ SecondCompletion

\* input() returns exit or quit.
ReadExit == ReadInput /\ pc' = "ended"

NextLoop ==
    \/ ReadInput
    \/ Interrupt
    \/ ReadInputFails
    \/ FirstCompletion
    \/ ToolStep
    \/ ExecuteInitialize
    \/ ExecuteCallTool
    \/ SecondCompletion

\* Every chat-completion call and every tool execution returns or fails, and
\* the user, asked again and again, types exit or quit at some prompt.
SpecLoop ==
    InitLoop /\ [][NextLoop]_vars /\ WF_vars(TurnStep) /\ SF_vars(ReadExit)

-----------------------------------------------------------------------------
(* Properties of the transcript. *)

HasToolCalls(m) == "tool_calls" \in DOMAIN m

\* The tool messages that directly follow message i, with only tool messages
\* in between.
Siblings(msgs, i) ==
    { k \in (i + 1)..Len(msgs) : \A l \in (i + 1)..k : msgs[l].role = "tool" }

\* Every tool call held by an assistant message of msgs is answered by
\* exactly one of the tool messages that follow that message.
AllAnswered(msgs) ==
    \A i \in 1..Len(msgs) :
        HasToolCalls(msgs[i]) =>
            \A j \in 1..Len(msgs[i].tool_calls) :
                Cardinality({ k \in Siblings(msgs, i) :
                    msgs[k].tool_call_id = msgs[i].tool_calls[j].id }) = 1

\* C1: whenever a chat-completion call is issued, in any turn of the session,
\* every tool call held by an assistant message of the transcript is answered
\* by exactly one tool message with its id, directly after that message.
C1_AnsweredBeforeCompletion ==
    pc \in {"call1", "call2"} => AllAnswered(messages)

\* The turn that has just returned, when its first response asked for tools.
ToolTurnReturned ==
    pc = "prompt" /\ output.kind = "assistant" /\ tool_calls # <<>>

\* The turn that has just returned, when its first response asked for none.
PlainTurnReturned ==
    pc = "prompt" /\ output.kind = "assistant" /\ tool_calls = <<>>

\* C2: a turn whose first response asks for k >= 1 tool calls appends a user
\* message, an assistant message with the k tool calls, k tool messages with
\* the ids of the calls in their order, and a final assistant message, k + 3
\* in all; execute_tool is invoked once per call, in order, one at a time; and
\* the content of the final message is what is returned.
C2_ToolTurnTranscript ==
    /\ ToolTurnReturned =>
          LET k == Len(tool_calls)
              b == turn_base
          IN  /\ Len(messages) = b + k + 3
              /\ messages[b + 1].role = "user"
              /\ messages[b + 2].role = "assistant"
              /\ HasToolCalls(messages[b + 2])
              /\ Len(messages[b + 2].tool_calls) = k
              /\ \A i \in 1..k :
                    /\ messages[b + 2].tool_calls[i].id = tool_calls[i].id
                    /\ messages[b + 2 + i].role = "tool"
                    /\ messages[b + 2 + i].tool_call_id = tool_calls[i].id
              /\ messages[b + k + 3].role = "assistant"
              /\ ~HasToolCalls(messages[b + k + 3])
              /\ output.text = messages[b + k + 3].content
              /\ Len(exec_log) = k
    /\ pc \in {"tools", "connected", "initialized", "call2"} =>
          /\ Len(exec_log) = IF pc \in {"connected", "initialized"}
                             THEN tool_idx ELSE tool_idx - 1
          /\ Len(messages) = turn_base + 2 + (tool_idx - 1)
          /\ \A i \in 1..Len(exec_log) :
                /\ exec_log[i].tool_name = tool_calls[i].function.name
                /\ exec_log[i].arguments = JsonLoads(tool_calls[i].function.arguments)
          /\ Cardinality(sessions) <= 1

\* A turn with two tool calls has returned.
C2_Witness ==
    /\ ToolTurnReturned
    /\ Len(tool_calls) = 2
    /\ tool_calls[1].function.name # tool_calls[2].function.name

\* C3: a turn whose response carries no tool calls appends one user message
\* and one assistant message, invokes execute_tool zero times, and returns
\* the content of that assistant message.
C3_PlainTurnTranscript ==
    PlainTurnReturned =>
        /\ Len(messages) = turn_base + 2
        /\ messages[turn_base + 1].role = "user"
        /\ messages[turn_base + 2].role = "assistant"
        /\ ~HasToolCalls(messages[turn_base + 2])
        /\ output.text = messages[turn_base + 2].content
        /\ output.text \in Contents
        /\ exec_log = <<>>

\* A second turn without tool calls has returned.
C3_Witness == PlainTurnReturned /\ turn = 2

-----------------------------------------------------------------------------
(* Properties of discovery and of the tool execution bridge. *)

\* The results of a discovery that list a tool of that name.
ExposedBy(results, name) ==
    { i \in 1..Len(results) :
        /\ "tools" \in DOMAIN results[i]
        /\ \E t \in 1..Len(results[i].tools) : results[i].tools[t].name = name }

\* The names some result lists.
ExposedNames(results) ==
    UNION { { results[i].tools[t].name : t \in 1..Len(results[i].tools) } :
            i \in { j \in 1..Len(results) : "tools" \in DOMAIN results[j] } }

Last(S) == CHOOSE i \in S : \A j \in S : j <= i

\* C4: when two servers list a tool of the same name, initialize_tools leaves
\* one entry for the name in the index, for the server processed last, and
\* returns exactly one function definition of that name.
C4_OneDefinitionPerSharedName ==
    [][ pc = "convert" =>
          \A name \in ExposedNames(server_tools) :
             Cardinality(ExposedBy(server_tools, name)) >= 2 =>
                /\ name \in DOMAIN tool_to_server'
                /\ tool_to_server'[name] =
                      server_tools[Last(ExposedBy(server_tools, name))].server
                /\ Cardinality({ d \in 1..Len(tools') :
                                    tools'[d].function.name = name }) = 1
      ]_vars

\* {"error": "<message>"}, as a JSON object with the one key error.
ErrorObject(message) == "{\"error\": \"" \o message \o "\"}"

\* execute_tool has returned text: the loop appended it as the answer to the
\* current tool call and moved on.
Answered(text) ==
    /\ messages' = Append(messages,
          [role |-> "tool", tool_call_id |-> tool_calls[tool_idx].id,
           content |-> text])
    /\ pc' \in {"tools", "call2"}

\* The messages of the failures that can follow the lookups.
FailureTexts ==
    ErrMsgs \cup { "Server " \o ServerName(i) \o " not configured" :
                   i \in 1..MaxServers }

\* C5: execute_tool never raises.  For a name that is not in the index it
\* returns {"error": "Tool <name> not found"} and opens no session; for an
\* indexed server that the registry lacks, {"error": "Server <server> not
\* configured"} and no session; a failure after that gives an object with
\* the one key error.
C5_ExecuteToolNeverRaises ==
    [][ /\ (pc = "tools" /\ exec_log' # exec_log) =>
              LET tool_name == tool_calls[tool_idx].function.name
                  indexed == tool_name \in DOMAIN tool_to_server
                  registry == McpServers(config)
                  registered ==
                      /\ indexed
                      /\ \E i \in 1..Len(registry) :
                            registry[i].name = tool_to_server[tool_name]
              IN  /\ pc' \in {"tools", "call2", "connected"}
                  /\ ~indexed =>
                        /\ Answered(ErrorObject("Tool " \o tool_name \o " not found"))
                        /\ sessions' = {}
                  /\ (indexed /\ ~registered) =>
                        /\ Answered(ErrorObject("Server " \o tool_to_server[tool_name]
                                                \o " not configured"))
                        /\ sessions' = {}
                  /\ (indexed /\ registered /\ pc' # "connected") =>
                        \E m \in FailureTexts : Answered(ErrorObject(m))
        /\ pc = "connected" =>
              \/ pc' = "initialized" /\ messages' = messages
              \/ \E m \in ErrMsgs : Answered(ErrorObject(m))
        /\ pc = "initialized" =>
              \/ \E m \in ErrMsgs : Answered(ErrorObject(m))
              \/ \E r \in CallResults : Answered(ResultText(r))
      ]_vars

\* The transcript holds an answer for a tool that is not in the index and one
\* for a tool whose server the registry lacks.
C5_Witness ==
    /\ \E k \in 1..Len(messages) :
          /\ messages[k].role = "tool"
          /\ messages[k].content = "{\"error\": \"Tool ghost not found\"}"
    /\ \E k \in 1..Len(messages) :
          /\ messages[k].role = "tool"
          /\ messages[k].content = "{\"error\": \"Server s2 not configured\"}"
    /\ "ping" \in DOMAIN tool_to_server

\* C6: get_tools on n >= 1 servers returns n results, the i-th being that of
\* the i-th server of the registry, whatever the order of completion; it
\* returns only when every task is done; and a step of one task (a failure
\* too) leaves every other task and every completed result as it is.
C6_GatherInLaunchOrder ==
    /\ [](pc = "convert" /\ mcp_servers # <<>> =>
            /\ Len(server_tools) = Len(mcp_servers)
            /\ \A i \in 1..Len(mcp_servers) :
                  server_tools[i].server = mcp_servers[i].name)
    /\ [][ /\ (pc = "discover" /\ pc' # "discover") =>
                 /\ AllDone
                 /\ pc' = "convert"
                 /\ Len(server_tools') = Len(tasks)
                 /\ \A i \in 1..Len(tasks) : server_tools'[i] = tasks[i].result
           /\ (pc = "discover" /\ pc' = "discover") =>
                 /\ Len(tasks') = Len(tasks)
                 /\ \A i \in 1..Len(tasks) :
                       /\ tasks[i].st = "done" => tasks'[i] = tasks[i]
                       /\ tasks'[i].st \in {"launched", "connected",
                                            "initialized", "done"}
                       /\ tasks'[i] # tasks[i] =>
                             \A j \in 1..Len(tasks) :
                                j # i => tasks'[j] = tasks[j]
         ]_vars

\* Two servers: the second failed first, the first listed its tools later, and
\* the results are returned in the order of the registry.
C6_Witness ==
    /\ pc = "convert"
    /\ Len(mcp_servers) = 2
    /\ done_order = <<2, 1>>
    /\ "tools" \in DOMAIN server_tools[1]
    /\ server_tools[1].tool_count = 3
    /\ "error" \in DOMAIN server_tools[2]
    /\ server_tools[2].error \in ErrMsgs

\* C7: a session is open only inside the discovery task or the execute_tool
\* call that opened it: none between operations, at most one during a chat
\* turn, and the one of the current tool call.
C7_SessionsScoped ==
    /\ pc = "discover" =>
          sessions = { DiscoverySession(i) :
                       i \in { j \in 1..Len(tasks) :
                               tasks[j].st \in {"connected", "initialized"} } }
    /\ pc \in {"connected", "initialized"} =>
          sessions = { ExecuteSession(turn, tool_idx) }
    /\ pc \notin {"discover", "connected", "initialized"} => sessions = {}

\* The second tool call of the second turn is in its own session, after the
\* sessions of discovery and of the earlier calls.
C7_Witness ==
    /\ pc = "initialized"
    /\ turn = 2
    /\ tool_idx = 2
    /\ Len(exec_log) = 2

TurnStates == {"call1", "tools", "connected", "initialized", "call2"}

\* C8: a failure in a turn is caught by the loop: the turn ends at the
\* prompt, never outside the loop, with the error printed, and the next line
\* is read as usual.
C8_FailedTurnKeepsLoop ==
    /\ [][ (pc \in TurnStates) =>
              /\ pc' \in TurnStates \cup {"prompt"}
              /\ (pc' = "prompt" /\ output'.kind # "assistant") =>
                    /\ output'.kind = "error"
                    /\ sessions' = {}
                    /\ turn' = turn
         ]_vars
    /\ [](pc = "prompt" /\ output.kind = "error" /\ turn < MaxTurns =>
             ENABLED (ReadInput /\ pc' = "call1"))

\* A turn has returned an answer after the turn before it failed with a tool
\* call unanswered.
C8_Witness ==
    /\ pc = "prompt"
    /\ output.kind = "assistant"
    /\ turn = 2
    /\ HasToolCalls(messages[turn_base])

AllWhitespace(line) == \A i \in 1..Len(line) : line[i] \in Whitespace

SameLetter(c, d) ==
    \/ c = d
    \/ \E k \in 1..Len(UpperCase) : {c, d} = {UpperCase[k], LowerCase[k]}

\* The line is exit or quit, in any letter case, between whitespace.
IsExitLine(line) ==
    \E a \in 1..Len(line) : \E b \in a..Len(line) :
        /\ \A i \in 1..(a - 1) : line[i] \in Whitespace
        /\ \A i \in (b + 1)..Len(line) : line[i] \in Whitespace
        /\ \E w \in ExitWords :
              /\ Len(w) = b - a + 1
              /\ \A i \in 1..Len(w) : SameLetter(line[a + i - 1], w[i])

\* C9: a line that is blank after strip(), or exit or quit in any case, causes
\* no chat-completion call and appends nothing; the blank line keeps the loop
\* at the prompt, exit and quit end it.
C9_BlankAndExitLines ==
    [][ (pc = "prompt" /\ last_line' # NoLine) =>
           /\ AllWhitespace(last_line') =>
                 /\ pc' = "prompt"
                 /\ UNCHANGED <<messages, turn, output, sessions>>
           /\ IsExitLine(last_line') =>
                 /\ pc' = "ended"
                 /\ output'.kind = "goodbye"
                 /\ UNCHANGED <<messages, turn, sessions>>
      ]_vars

\* The loop has ended on " ExIT " after a turn.
C9_Witness ==
    /\ pc = "ended"
    /\ last_line = <<" ", "E", "x", "I", "T", " ">>
    /\ turn = 1
    /\ Len(messages) = 2

\* The document has no server: mcpServers is absent or empty.
NoServers(doc) ==
    \/ "mcpServers" \notin DOMAIN doc
    \/ Len(doc.mcpServers) = 0

\* C10: get_tools on a document without servers returns the one record
\* [{error: "No mcpServers found in configuration"}] and launches nothing;
\* initialize_tools on it returns no definition and leaves the index empty.
C10_EmptyRegistry ==
    [][ /\ (pc = "get_tools" /\ NoServers(file_config)) =>
              /\ pc' = "convert"
              /\ server_tools' = << [error |-> "No mcpServers found in configuration"] >>
              /\ tasks' = <<>>
              /\ sessions' = {}
        /\ (pc = "convert" /\ NoServers(file_config)) =>
              /\ pc' = "prompt"
              /\ tools' = <<>>
              /\ tool_to_server' = EmptyDict
      ]_vars

\* get_tools has returned for a document without the mcpServers field.
C10_Witness ==
    /\ pc = "convert"
    /\ file_config = EmptyDict
    /\ Len(server_tools) = 1
    /\ tasks = <<>>

-----------------------------------------------------------------------------
(* Properties of get_tools_from_server. *)

\* The launch spec has no command, or an empty one.
NoCommand(spec) == "command" \notin DOMAIN spec \/ spec.command = ""

\* One Discovery Result of the server of that name: its tools with their
\* count, or an error string.
IsDiscoveryResult(r, name) ==
    /\ "server" \in DOMAIN r
    /\ r.server = name
    /\ \/ /\ DOMAIN r = {"server", "tools", "tool_count"}
          /\ r.tool_count = Len(r.tools)
       \/ /\ DOMAIN r = {"server", "error"}
          /\ r.error \in ErrMsgs \cup {"No command specified in configuration"}

\* C11: get_tools_from_server never raises: every step of a discovery task
\* stays inside get_tools, and the task ends with one record that carries the
\* server's name and either the tools with tool_count equal to their number
\* or an error string.  For a launch spec without a command, or with an empty
\* one, the record is {server, error: "No command specified in
\* configuration"} and no subprocess session is opened.
C11_DiscoverServerResult ==
    [][ (pc = "discover" /\ pc' = "discover") =>
           \A i \in 1..Len(tasks) :
              /\ (tasks[i].st # "done" /\ tasks'[i].st = "done") =>
                    IsDiscoveryResult(tasks'[i].result, mcp_servers[i].name)
              /\ (NoCommand(mcp_servers[i].config) /\ tasks'[i] # tasks[i]) =>
                    /\ tasks[i].st = "launched"
                    /\ tasks'[i].st = "done"
                    /\ tasks'[i].result =
                          [server |-> mcp_servers[i].name,
                           error |-> "No command specified in configuration"]
                    /\ sessions' = sessions
              /\ NoCommand(mcp_servers[i].config) =>
                    DiscoverySession(i) \notin sessions'
      ]_vars
    /\ [][ pc = "discover" => pc' \in {"discover", "convert"} ]_vars

\* Discovery has returned for a server without a command and a server that
\* listed three tools.
C11_Witness ==
    /\ pc = "convert"
    /\ Len(server_tools) = 2
    /\ NoCommand(mcp_servers[1].config)
    /\ server_tools[1] = [server |-> "s1",
                          error |-> "No command specified in configuration"]
    /\ "tools" \in DOMAIN server_tools[2]
    /\ server_tools[2].tool_count = 3

-----------------------------------------------------------------------------
(* Properties of the state the bridge and the session share. *)

\* C12: tool_to_server and the cached tools are written by initialize_tools
\* and initialize() only: no step of send_message or execute_tool, failing
\* steps included, changes either; and in run() the initialization is
\* complete (its result stored, its discovery over) before the first
\* chat-completion call or tool execution.
C12_WrittenByInitializeOnly ==
    /\ [][ (tool_to_server' # tool_to_server \/ tools' # tools) =>
              (pc = "convert" /\ pc' = "prompt") ]_vars
    /\ [][ (pc \in TurnStates \cup {"prompt"}) =>
              (tool_to_server' = tool_to_server /\ tools' = tools) ]_vars
    /\ [](pc \in TurnStates \/ completions > 0 \/ exec_log # <<>> =>
             /\ tools # NoTools
             /\ tasks = <<>>
             /\ server_tools = <<>>)

\* The second turn has executed two tool calls with the index and the
\* definitions of three tools loaded.
C12_Witness ==
    /\ pc = "call2"
    /\ turn = 2
    /\ Len(exec_log) = 2
    /\ Len(tools) = 3
    /\ DOMAIN tool_to_server = {"ping", "calc", "echo"}

-----------------------------------------------------------------------------
(* Properties of the chat-completion calls. *)

\* At least one tool was loaded by initialize().
ToolsLoaded == tools # NoTools /\ Len(tools) >= 1

\* The call carries neither tools nor a tool_choice.
NoToolArguments(req) ==
    "tools" \notin DOMAIN req /\ "tool_choice" \notin DOMAIN req

\* C13: the first chat-completion call of a turn carries the
\* cached definitions with tool_choice "auto" exactly when at least one tool
\* was loaded, and has neither a tools nor a tool_choice argument when none
\* was; the second call never has them.
C13_ToolsOmittedWhenNoneLoaded ==
    [][ /\ pc = "call1" =>
              IF ToolsLoaded
              THEN /\ ~NoToolArguments(request')
                   /\ request'.tools = tools
                   /\ request'.tool_choice = "auto"
              ELSE NoToolArguments(request')
        /\ pc = "call2" => NoToolArguments(request')
      ]_vars

\* What the calls do carry: the first call of a turn always passes tools and
\* tool_choice, the cached definitions and "auto" exactly when at least one
\* tool was loaded, None and None when none was; the second call passes
\* neither argument.
ToolsNoneWhenNoneLoaded ==
    [][ /\ pc = "call1" =>
              /\ {"tools", "tool_choice"} \subseteq DOMAIN request'
              /\ IF ToolsLoaded
                 THEN /\ request'.tools = tools
                      /\ request'.tool_choice = "auto"
                 ELSE /\ request'.tools = NoTools
                      /\ request'.tool_choice = NoneVal
        /\ pc = "call2" => NoToolArguments(request')
      ]_vars

-----------------------------------------------------------------------------
(* Properties of the translation of tools. *)

\* The Tool Descriptor read back from a Chat Function Definition.
ReadBack(definition) ==
    IF "parameters" \in DOMAIN definition.function
    THEN [name |-> definition.function.name,
          description |-> definition.function.description,
          inputSchema |-> definition.function.parameters]
    ELSE [name |-> definition.function.name,
          description |-> definition.function.description]

\* The Tool Descriptors of the results that carry tools, in their order.
RECURSIVE Descriptors(_)
Descriptors(results) ==
    IF results = <<>>
    THEN <<>>
    ELSE (IF "tools" \in DOMAIN Head(results) THEN Head(results).tools ELSE <<>>)
         \o Descriptors(Tail(results))

\* C14: the definition built from a Tool Descriptor reads back as that
\* descriptor: name, description and schema when the descriptor has an
\* inputSchema, name and description without a parameters field when it has
\* none; its type is "function"; and the descriptors are the tools as the
\* server listed them.
C14_RoundTrip ==
    [][ /\ pc = "convert" =>
              LET ds == Descriptors(server_tools)
              IN  /\ Len(tools') = Len(ds)
                  /\ \A i \in 1..Len(ds) :
                        /\ DOMAIN tools'[i] = {"type", "function"}
                        /\ tools'[i].type = "function"
                        /\ ReadBack(tools'[i]) = ds[i]
                        /\ "parameters" \in DOMAIN tools'[i].function
                              <=> "inputSchema" \in DOMAIN ds[i]
        /\ (pc = "discover" /\ pc' = "discover") =>
              \A i \in 1..Len(tasks) :
                 (tasks'[i] # tasks[i] /\ "tools" \in DOMAIN tasks'[i].result) =>
                     tasks'[i].result.tools \in ToolLists
      ]_vars

\* The definitions of a tool with a schema, a tool without one, and a tool
\* with an empty schema and no description have been built.
C14_Witness ==
    /\ pc = "prompt"
    /\ Len(tools) = 3
    /\ tools[1].function.parameters = [type |-> "object"]
    /\ DOMAIN tools[2].function = {"name", "description"}
    /\ tools[3].function.parameters = EmptyDict
    /\ tools[3].function.description = NoneVal

-----------------------------------------------------------------------------
(* Properties of the turn as a state machine. *)

\* The state of the turn state machine at a position of run().
StateOf(p) ==
    CASE p = "prompt" -> "AwaitingUserInput"
      [] p = "call1" -> "AwaitingModelResponse"
      [] p \in {"tools", "connected", "initialized"} -> "ExecutingTools"
      [] p = "call2" -> "AwaitingFollowupResponse"
      [] OTHER -> "Outside"

\* The step leaves the turn through the except of the loop.
FailingStep == pc \in TurnStates /\ pc' = "prompt" /\ output'.kind = "error"

\* C15: every turn passes through AwaitingUserInput, AwaitingModelResponse,
\* ExecutingTools (skipped, and it alone, when the first response carries no
\* tool calls), AwaitingFollowupResponse and AwaitingUserInput, in this
\* order, with at most one round of tool execution and at most two
\* chat-completion calls.  Failing steps are left aside.
C15_OnlyExecutingToolsSkipped ==
    [][ (pc \in TurnStates \cup {"prompt"} /\ pc' # "ended" /\ ~FailingStep) =>
           LET a == StateOf(pc)
               b == StateOf(pc')
           IN  /\ a # b =>
                     \/ a = "AwaitingUserInput" /\ b = "AwaitingModelResponse"
                     \/ /\ a = "AwaitingModelResponse"
                        /\ b = IF tool_calls' # <<>> THEN "ExecutingTools"
                                                   ELSE "AwaitingFollowupResponse"
                     \/ a = "ExecutingTools" /\ b = "AwaitingFollowupResponse"
                     \/ a = "AwaitingFollowupResponse" /\ b = "AwaitingUserInput"
               /\ completions' <= 2
      ]_vars

\* C15, amended: a turn goes from AwaitingUserInput to AwaitingModelResponse;
\* from there to ExecutingTools when the first response carries tool calls,
\* and straight back to AwaitingUserInput when it carries none (the first
\* response is the answer: ExecutingTools and AwaitingFollowupResponse are
\* both skipped); from ExecutingTools, once every call is answered, to
\* AwaitingFollowupResponse, and from there to AwaitingUserInput.  A failing
\* step returns to AwaitingUserInput from any state of the turn.  A turn has
\* at most one round of tool execution and at most two chat-completion
\* calls: one when it answers without tools, two when it answers with them.
C15_TurnStateMachine ==
    [][ (pc \in TurnStates \cup {"prompt"} /\ pc' # "ended") =>
           LET a == StateOf(pc)
               b == StateOf(pc')
           IN  /\ a # b =>
                     \/ a = "AwaitingUserInput" /\ b = "AwaitingModelResponse"
                     \/ /\ a = "AwaitingModelResponse"
                        /\ b = "ExecutingTools"
                        /\ tool_calls' # <<>>
                     \/ /\ a = "AwaitingModelResponse"
                        /\ b = "AwaitingUserInput"
                        /\ tool_calls' = <<>>
                        /\ output'.kind = "assistant"
                     \/ /\ a = "ExecutingTools"
                        /\ b = "AwaitingFollowupResponse"
                        /\ tool_idx' = Len(tool_calls) + 1
                     \/ /\ a = "AwaitingFollowupResponse"
                        /\ b = "AwaitingUserInput"
                     \/ FailingStep
               /\ completions' <= 2
               /\ (a # b /\ b = "AwaitingUserInput" /\ ~FailingStep) =>
                     completions' = IF tool_calls' = <<>> THEN 1 ELSE 2
      ]_vars

\* A turn has answered with one chat-completion call and no tool execution,
\* after a turn that executed tools and made two calls.
C15_Witness ==
    /\ pc = "prompt"
    /\ turn = 2
    /\ output.kind = "assistant"
    /\ tool_calls = <<>>
    /\ completions = 1
    /\ Len(messages) >= 6
    /\ HasToolCalls(messages[2])
    /\ messages[Len(messages) - 2].role = "assistant"

-----------------------------------------------------------------------------
(* Properties of the transcript over a session. *)

IsPrefix(s, t) == Len(s) <= Len(t) /\ \A i \in 1..Len(s) : t[i] = s[i]

Roles == {"user", "assistant", "tool"}

\* C16: the transcript is append-only: over every step of a session the
\* transcript before is a prefix of the transcript after; a failing step
\* keeps everything the turn appended; and the role of every message is
\* user, assistant or tool.
C16_AppendOnly ==
    /\ [][ /\ IsPrefix(messages, messages')
           /\ FailingStep =>
                 /\ messages' = messages
                 /\ Len(messages') >= turn_base + 1
         ]_vars
    /\ [](\A i \in 1..Len(messages) : messages[i].role \in Roles)

\* The second turn failed after it appended its user message, its tool calls
\* and an answer to the last of them, all still in the transcript after the
\* messages of the first turn.
C16_Witness ==
    /\ pc = "prompt"
    /\ turn = 2
    /\ output.kind = "error"
    /\ turn_base >= 2
    /\ Len(messages) >= turn_base + 3
    /\ messages[turn_base + 1].role = "user"
    /\ HasToolCalls(messages[turn_base + 2])
    /\ messages[Len(messages)].role = "tool"

\* The message that tool message k follows with only tool messages in
\* between: the last message before k that is not a tool message, 0 if none.
Origin(msgs, k) ==
    CHOOSE i \in 0..(k - 1) :
        /\ i > 0 => msgs[i].role # "tool"
        /\ \A l \in (i + 1)..(k - 1) : msgs[l].role = "tool"

\* C17: in every transcript each tool message follows, with only tool
\* messages in between, an assistant message that holds a tool call with the
\* id of the tool message, and an assistant message is followed by no more
\* tool messages than it holds tool calls: no tool message directly follows
\* a user message or an assistant message without tool calls.
C17_ToolMessagesHaveOrigin ==
    /\ \A k \in 1..Len(messages) :
          messages[k].role = "tool" =>
             LET i == Origin(messages, k)
             IN  /\ i >= 1
                 /\ messages[i].role = "assistant"
                 /\ HasToolCalls(messages[i])
                 /\ \E j \in 1..Len(messages[i].tool_calls) :
                       messages[i].tool_calls[j].id = messages[k].tool_call_id
    /\ \A i \in 1..Len(messages) :
          messages[i].role # "tool" =>
             Cardinality(Siblings(messages, i)) <=
                IF HasToolCalls(messages[i]) THEN Len(messages[i].tool_calls)
                                             ELSE 0

\* A failed turn left an assistant message with two tool calls and one tool
\* message, and the next turn has appended after it.
C17_Witness ==
    \E i \in 1..Len(messages) :
        /\ HasToolCalls(messages[i])
        /\ Len(messages[i].tool_calls) = 2
        /\ Cardinality(Siblings(messages, i)) = 1
        /\ Len(messages) >= i + 2
        /\ messages[i + 2].role = "user"

-----------------------------------------------------------------------------
(* Properties of the termination of the loop. *)

LoopStates == TurnStates \cup {"prompt"}

\* C18: the loop ends only at the prompt, on a line that is exit or quit or
\* on an interrupt, and with the farewell; a blank line, a failing turn and
\* a failing input() all lead back to the prompt; and when every call of a
\* turn returns or fails and the user types exit or quit at some prompt, the
\* session ends with the farewell.
C18_LoopEndsOnExitOnly ==
    /\ [][ (pc \in LoopStates) => pc' \in LoopStates \cup {"ended"} ]_vars
    /\ [][ (pc # "ended" /\ pc' = "ended") =>
              /\ pc = "prompt"
              /\ output'.kind = "goodbye"
              /\ last_line' = NoLine \/ IsExitLine(last_line')
         ]_vars
    /\ [][ (pc = "prompt" /\ last_line' # NoLine /\ ~IsExitLine(last_line')) =>
              pc' \in {"prompt", "call1"} ]_vars
    /\ [][ (pc = "ended") => pc' = "ended" ]_vars
    /\ <>(pc = "ended" /\ output.kind = "goodbye")

\* The session has ended on "QUIT" and a tab, after a blank or failed read
\* could only return to the prompt and the second turn had failed with its
\* tool call unanswered.
C18_Witness ==
    /\ pc = "ended"
    /\ output.kind = "goodbye"
    /\ last_line = <<"Q", "U", "I", "T", "\t">>
    /\ turn = 2
    /\ HasToolCalls(messages[Len(messages)])

====
